---------------------------- MODULE Spec2Model ----------------------------
(***************************************************************************)
(* A model of karousell.py: the dual-format listing parser (FileParser),   *)
(* the SMTP deliverability probe (EmailVerifier.check_mailbox_exists) and  *)
(* the cache-backed, semaphore-bounded verification of a batch             *)
(* (EmailVerifier.verify, TelegramBot.verify_all / handle_document), and   *)
(* the delivery of the results with the saving of the new addresses        *)
(* (TelegramBot.send_results, EmailVerifier.save_valid_emails).            *)
(*                                                                         *)
(* Python strings are sequences of one-character strings.  A few fixed     *)
(* multi-character literals of the source (the media host prefix, the URL  *)
(* schemes) are single elements of such a sequence.                        *)
(***************************************************************************)
EXTENDS Integers, Sequences, FiniteSets, TLC

(***************************************************************************)
(* Strings                                                                 *)
(***************************************************************************)

UpperLetters ==
  <<"A","B","C","D","E","F","G","H","I","J","K","L","M",
    "N","O","P","Q","R","S","T","U","V","W","X","Y","Z">>

LowerLetters ==
  <<"a","b","c","d","e","f","g","h","i","j","k","l","m",
    "n","o","p","q","r","s","t","u","v","w","x","y","z">>

Digits == <<"0","1","2","3","4","5","6","7","8","9">>

Range(s) == { s[i] : i \in DOMAIN s }

\* str.strip() with no argument removes these (the model's whitespace).
Whitespace == {" ", "\n"}

\* The character class [A-Za-z0-9_.-] of the seller patterns.
HandleChars ==
  Range(UpperLetters) \cup Range(LowerLetters) \cup Range(Digits) \cup {"_", ".", "-"}

LowerChar(c) ==
  IF c \in Range(UpperLetters)
  THEN LowerLetters[CHOOSE i \in DOMAIN UpperLetters : UpperLetters[i] = c]
  ELSE c

\* str.lower()
lower(s) == [i \in DOMAIN s |-> LowerChar(s[i])]

\* str.strip()
strip(s) ==
  LET keep == { i \in DOMAIN s : s[i] \notin Whitespace }
  IN  IF keep = {} THEN <<>>
      ELSE LET lo == CHOOSE i \in keep : \A j \in keep : i <= j
               hi == CHOOSE i \in keep : \A j \in keep : j <= i
           IN  SubSeq(s, lo, hi)

\* str(n) for an int n >= 0
RECURSIVE str(_)
str(n) == IF n < 10 THEN <<Digits[n + 1]>> ELSE str(n \div 10) \o <<Digits[(n % 10) + 1]>>

\* s.endswith(suffix)
endswith(s, suffix) ==
  /\ Len(suffix) <= Len(s)
  /\ SubSeq(s, Len(s) - Len(suffix) + 1, Len(s)) = suffix

\* The longest prefix of s whose characters all satisfy the class `cls`
\* (what a greedy  [cls]*  matches at the start of s).
RECURSIVE Run(_, _)
Run(s, cls) ==
  IF s # <<>> /\ Head(s) \in cls THEN <<Head(s)>> \o Run(Tail(s), cls) ELSE <<>>

\* s without its first n characters
Drop(s, n) == SubSeq(s, n + 1, Len(s))

(***************************************************************************)
(* Configuration (lines 18-21)                                             *)
(***************************************************************************)

COMMON_EMAIL_DOMAINS == << <<"g","m","a","i","l",".","c","o","m">> >>


(***************************************************************************)
(* Values decoded from JSON, as parse_carousell_json reads them.           *)
(* A member value is a string, a number, None (null or an absent key:      *)
(* dict.get gives None for both) or a container (a nested array/object     *)
(* with n members).                                                        *)
(***************************************************************************)

JStr(s)  == [t |-> "str",  s |-> s,    n |-> 0]
JNum(n)  == [t |-> "num",  s |-> <<>>, n |-> n]
JNone    == [t |-> "none", s |-> <<>>, n |-> 0]
JList(n) == [t |-> "list", s |-> <<>>, n |-> n]

\* Python truthiness, bool(v)
truthy(v) ==
  CASE v.t = "str"  -> v.s # <<>>
    [] v.t = "num"  -> v.n # 0
    [] v.t = "list" -> v.n # 0
    [] OTHER        -> FALSE

\* A member of the top-level document: an object with the five keys read
\* by the parser, or something that is not an object (isdict = FALSE).
Item(seller, img_url, adLink, title, price) ==
  [isdict |-> TRUE, seller |-> seller, img_url |-> img_url, adLink |-> adLink,
   title |-> title, price |-> price]

NotAnObject ==
  [isdict |-> FALSE, seller |-> JNone, img_url |-> JNone, adLink |-> JNone,
   title |-> JNone, price |-> JNone]

\* Listing (lines 95-101)
Listing(photo, title, price, link, seller) ==
  [photo |-> photo, title |-> title, price |-> price, link |-> link, seller |-> seller]

\* Listing.email (lines 103-105)
email(listing) == lower(listing.seller) \o <<"@">> \o COMMON_EMAIL_DOMAINS[1]

(***************************************************************************)
(* A file's text is represented by what the two scanners of the source see *)
(* in it:                                                                  *)
(*   lead   the characters before the body (whitespace, byte-order marks), *)
(*   json   what json.loads makes of the body: ok = FALSE when the body is *)
(*          no JSON text, else the kind of the top-level value and, for an *)
(*          object or an array, its member values in order,                *)
(*   segs   the segments re.split cuts the body into at the block          *)
(*          delimiter, each given by the text that follows each of the     *)
(*          five field labels in it (has = FALSE: the label is absent).    *)
(***************************************************************************)

BOM == "BOM"

Some(s) == [has |-> TRUE, s |-> s]
None    == [has |-> FALSE, s |-> <<>>]

Segment(photo, title, price, link, seller, junk) ==
  [photo |-> photo, title |-> title, price |-> price, link |-> link,
   seller |-> seller, junk |-> junk]

NoJson == [ok |-> FALSE, kind |-> "none", vals |-> <<>>]
Json(kind, vals) == [ok |-> TRUE, kind |-> kind, vals |-> vals]

Text(lead, json, segs) == [lead |-> lead, json |-> json, segs |-> segs]

\* line 117: file_content.strip().replace(U+FEFF, "")
Normalize(text) ==
  [text EXCEPT !.lead = SelectSeq(Drop(text.lead, Len(Run(text.lead, Whitespace))),
                                  LAMBDA c : c # BOM)]

\* json.loads (line 119): a byte-order mark before the body is a decode error.
json_loads(text) == IF BOM \in Range(text.lead) THEN NoJson ELSE text.json


(***************************************************************************)
(* FileParser                                                              *)
(***************************************************************************)

\* The numbers of the seller pattern [A-Za-z0-9_.-]{4,30} (line 208)
SellerMinLen == 4
SellerMaxLen == 30

\* re.fullmatch(r"[A-Za-z0-9_.-]{4,30}", s) on a string s (line 208)
fullmatch_seller(s) ==
  /\ Len(s) >= SellerMinLen
  /\ Len(s) <= SellerMaxLen
  /\ \A i \in DOMAIN s : s[i] \in HandleChars

\* is_valid_seller (lines 206-208) on a decoded value:
\* bool(seller) and bool(re.fullmatch(...)).  re.fullmatch raises TypeError
\* on a truthy value that is not a string.
is_valid_seller_raises(v) == truthy(v) /\ v.t # "str"
is_valid_seller(v) == truthy(v) /\ v.t = "str" /\ fullmatch_seller(v.s)

\* The fixed literals the block patterns start with (lines 185, 188)
MEDIA_PREFIX == "https://media.karousell.com"
Schemes == {"https://", "http://"}

\* (.+) after \s* (lines 186-187): skip the whitespace, take the rest of the
\* line.  When only whitespace follows the label, \s* backtracks and (.+)
\* takes blanks, if there are any on the label's line or after it.
RestOfLine(tail) ==
  LET ws   == Run(tail, Whitespace)
      rest == Drop(tail, Len(ws))
  IN  IF rest # <<>> THEN Some(Run(rest, { c \in Range(rest) : c # "\n" }))
      ELSE IF " " \in Range(ws) THEN Some(<<" ">>)
      ELSE None

\* re.search of one of the five patterns of lines 185-189 in a segment:
\* the captured group, or None.
search(pattern, seg) ==
  CASE pattern = "photo" ->
         LET url == Run(seg.photo.s, Range(seg.photo.s) \ Whitespace)
         IN  IF seg.photo.has /\ url # <<>> THEN Some(<<MEDIA_PREFIX>> \o url) ELSE None
    [] pattern = "title" -> IF seg.title.has THEN RestOfLine(seg.title.s) ELSE None
    [] pattern = "price" -> IF seg.price.has THEN RestOfLine(seg.price.s) ELSE None
    [] pattern = "link" ->
         LET t    == seg.link.s
             body == Run(Drop(t, 1), Range(t) \ {")"})
         IN  IF /\ seg.link.has
                /\ t # <<>>
                /\ Head(t) \in Schemes
                /\ body # <<>>
                /\ Len(t) > 1 + Len(body)        \* the closing parenthesis follows
             THEN Some(<<Head(t)>> \o body)
             ELSE None
    [] pattern = "seller" ->
         LET t      == seg.seller.s
             handle == Run(Drop(t, Len(Run(t, Whitespace))), HandleChars)
         IN  IF seg.seller.has /\ handle # <<>> THEN Some(handle) ELSE None

\* extract_value (lines 201-204): match.group(1).strip() if match else None
extract_value(pattern, seg) ==
  LET match == search(pattern, seg)
  IN  IF match.has THEN Some(strip(match.s)) ELSE None

\* A value of extract_value in a condition: None and "" are false.
present(v) == v.has /\ v.s # <<>>

\* _build_listing_from_block (lines 183-199): <<listing>>, or << >> for None
_build_listing_from_block(seg) ==
  LET photo  == extract_value("photo", seg)
      title  == extract_value("title", seg)
      price  == extract_value("price", seg)
      link   == extract_value("link", seg)
      seller == extract_value("seller", seg)
  IN  IF /\ present(photo) /\ present(title) /\ present(price)
         /\ present(link) /\ present(seller)
         /\ is_valid_seller(JStr(seller.s))
      THEN << Listing(strip(photo.s), strip(title.s), strip(price.s),
                      strip(link.s), strip(seller.s)) >>
      ELSE << >>

\* sanitized = block.strip(); if not sanitized: continue (lines 136-138)
IsBlank(seg) ==
  /\ ~seg.junk
  /\ \A f \in {"photo", "title", "price", "link", "seller"} : ~seg[f].has

\* parse_carousell_blocks (lines 129-143)
RECURSIVE parse_carousell_blocks(_)
parse_carousell_blocks(segs) ==
  IF segs = << >> THEN << >>
  ELSE (IF IsBlank(Head(segs)) THEN << >> ELSE _build_listing_from_block(Head(segs)))
       \o parse_carousell_blocks(Tail(segs))


\* What a call gives: the exception it raises ("" when it returns) and the
\* listings it returns.
Returned(listings) == [exc |-> "", listings |-> listings]
Raised(exc)        == [exc |-> exc, listings |-> << >>]

\* str(price) (line 163); a container prints as bracketed text.
py_str(v) ==
  CASE v.t = "str"  -> v.s
    [] v.t = "num"  -> str(v.n)
    [] v.t = "list" -> <<"[...]">>
    [] OTHER        -> <<"N","o","n","e">>

\* The body of the loop of parse_carousell_json for one item (lines 150-167):
\* the listing appended (<<listing>>), nothing (<< >>, continue), or the
\* exception raised: item.get on a value that is no object, re.fullmatch on
\* a seller that is no string, .strip() on a field that is no string.
json_item(item) ==
  IF ~item.isdict THEN Raised("AttributeError")
  ELSE IF is_valid_seller_raises(item.seller) THEN Raised("TypeError")
  ELSE IF ~is_valid_seller(item.seller) THEN Returned(<< >>)
  ELSE IF ~(/\ truthy(item.img_url) /\ truthy(item.adLink)
            /\ truthy(item.title) /\ truthy(item.price)) THEN Returned(<< >>)
  ELSE IF \E v \in {item.img_url, item.title, item.adLink} : v.t # "str"
       THEN Raised("AttributeError")
  ELSE Returned(<< Listing(strip(item.img_url.s), strip(item.title.s),
                           strip(py_str(item.price)), strip(item.adLink.s),
                           strip(item.seller.s)) >>)

RECURSIVE json_items(_)
json_items(vals) ==
  IF vals = << >> THEN Returned(<< >>)
  ELSE LET first == json_item(Head(vals))
       IN  IF first.exc # "" THEN first
           ELSE LET rest == json_items(Tail(vals))
                IN  IF rest.exc # "" THEN rest
                    ELSE Returned(first.listings \o rest.listings)

\* parse_carousell_json (lines 145-168): data.values() exists on an object
\* only.
parse_carousell_json(data) ==
  IF data.kind # "object" THEN Raised("AttributeError") ELSE json_items(data.vals)

\* key = (listing.seller.lower(), listing.link)  (line 176)
dedup_key(listing) == << lower(listing.seller), listing.link >>

\* Mutant: the key without seller.lower()
RECURSIVE dedup_cased(_, _)
dedup_cased(listings, seen) ==
  IF listings = << >> THEN << >>
  ELSE LET key == << Head(listings).seller, Head(listings).link >>
       IN  IF key \in seen THEN dedup_cased(Tail(listings), seen)
           ELSE <<Head(listings)>> \o dedup_cased(Tail(listings), seen \cup {key})

deduplicate_listings_CaseSensitive(listings) == dedup_cased(listings, {})

\* deduplicate_listings (lines 170-181)
RECURSIVE dedup_from(_, _)
dedup_from(listings, seen) ==
  IF listings = << >> THEN << >>
  ELSE LET key == dedup_key(Head(listings))
       IN  IF key \in seen THEN dedup_from(Tail(listings), seen)
           ELSE <<Head(listings)>> \o dedup_from(Tail(listings), seen \cup {key})

deduplicate_listings(listings) == dedup_from(listings, {})

\* What parse gives: the exception it raises ("" when it returns), the
\* listings and the label.
ParseResult(exc, listings, label) == [exc |-> exc, listings |-> listings, label |-> label]

\* if listings: (line 121)
AtomFound(listings) == listings # << >>

\* FileParser.parse (lines 114-127).  Only json.JSONDecodeError is caught.
parse(file_content) ==
  LET content == Normalize(file_content)
      data    == json_loads(content)
      atom    == parse_carousell_json(data)
      g6      == parse_carousell_blocks(content.segs)
  IN  IF data.ok /\ atom.exc # ""
        THEN ParseResult(atom.exc, << >>, "")
      ELSE IF data.ok /\ AtomFound(atom.listings)
        THEN ParseResult("", deduplicate_listings(atom.listings), "Atom Parser")
      ELSE ParseResult("", deduplicate_listings(g6), "G6 Parser")


(***************************************************************************)
(* Inputs of the parser                                                    *)
(***************************************************************************)

\* Bounds: the longest document (members of the top-level value) and the
\* largest number of block segments of an input.
MaxItems == 3
MaxBlocks == 3

SeqsUpTo(S, n) == UNION { [1..k -> S] : k \in 0..n }

hAbcd == <<"A","b","c","d">>
habcd == <<"a","b","c","d">>
hwxyz == <<"w","x","y","z">>
hbob  == <<"b","o","b">>
\* one character more than the seller pattern allows
hlong == [i \in 1..(SellerMaxLen + 1) |-> "a"]
link1 == <<"https://", "x", "/", "1">>
link2 == <<"https://", "x", "/", "2">>
img1  == <<"u", "1">>
img2  == <<"u", "2">>

JsonItems ==
  { Item(JStr(hAbcd), JStr(img1), JStr(link1), JStr(<<"T">>), JStr(<<"$","1">>)),
    \* the same key (seller lowercased, link) as the first, other fields differ
    Item(JStr(habcd), JStr(img2), JStr(link1 \o <<" ">>), JStr(<<"t">>), JNum(5)),
    Item(JStr(habcd), JStr(img1), JStr(link2), JStr(<<"T">>), JNum(10)),
    Item(JStr(hwxyz), JStr(img1), JStr(link1), JStr(<<" ","T"," ">>), JStr(<<"1">>)),
    \* rejected: seller too short, too long, with a character that is no
    \* handle character, a missing field, a price of 0
    Item(JStr(hbob), JStr(img1), JStr(link1), JStr(<<"T">>), JNum(5)),
    Item(JStr(hlong), JStr(img1), JStr(link1), JStr(<<"T">>), JNum(5)),
    Item(JStr(hwxyz \o <<"!", "x">>), JStr(img1), JStr(link1), JStr(<<"T">>), JNum(5)),
    Item(JStr(hwxyz), JNone, JStr(link2), JStr(<<"T">>), JNum(5)),
    Item(JStr(hwxyz), JStr(img1), JStr(link2), JStr(<<"T">>), JNum(0)),
    \* a title of blanks only
    Item(JStr(hwxyz), JStr(img1), JStr(link2), JStr(<<" ">>), JNum(5)),
    \* a member that is no object, a seller and a title that are no strings
    NotAnObject,
    Item(JNum(7), JStr(img1), JStr(link1), JStr(<<"T">>), JNum(5)),
    Item(JStr(hwxyz), JStr(img1), JStr(link2), JNum(3), JNum(5)) }

\* After the labels of a block: the media URL, the title and price lines,
\* the link and the seller.
tPhoto == Some(<<"/", "i", "1", "\n">>)
tLink1 == Some(link1 \o <<")">>)
tLink2 == Some(link2 \o <<")", "\n">>)

segLamp ==
  Segment(tPhoto, Some(<<" ","L","a","m","p","\n">>), Some(<<" ","$","1">>), tLink1,
          Some(<<" ">> \o hAbcd), FALSE)

segPen ==
  Segment(tPhoto, Some(<<" ","P","e","n">>), Some(<<"9">>), tLink1,
          Some(hwxyz \o <<"!", "x">>), FALSE)

Segments ==
  { segLamp,
    \* the same key as the first, another title
    Segment(tPhoto, Some(<<" ","B","o","x","\n">>), Some(<<" ","$","2">>), tLink1,
            Some(<<" ">> \o habcd \o <<"\n">>), FALSE),
    Segment(tPhoto, Some(<<" ","L","a","m","p","\n">>), Some(<<" ","$","1">>), tLink2,
            Some(<<" ">> \o habcd), TRUE),
    segPen,
    \* no listing: no price label, a seller too short, an unclosed link, blank
    Segment(tPhoto, Some(<<" ","P","e","n">>), None, tLink1, Some(hwxyz), FALSE),
    Segment(tPhoto, Some(<<" ","P","e","n">>), Some(<<"9">>), tLink1,
            Some(<<" ">> \o hbob \o <<"!">> \o hwxyz), FALSE),
    Segment(tPhoto, Some(<<" ","P","e","n">>), Some(<<" ", "\n">>), Some(link2),
            Some(hwxyz), TRUE),
    \* a seller too long
    Segment(tPhoto, Some(<<" ","P","e","n">>), Some(<<"9">>), tLink1,
            Some(<<" ">> \o hlong), FALSE),
    Segment(None, None, None, None, None, FALSE) }

Leads == { << >>, <<" ", BOM>> }

\* Texts that decode as JSON (an object, an array, a number) and also hold
\* one of two block contents; and texts that are no JSON.
DecodableTexts ==
  { Text(lead, json, segs) :
      lead \in Leads,
      json \in { Json("object", vals) : vals \in SeqsUpTo(JsonItems, MaxItems) }
               \cup { Json("array", << >>), Json("array", <<NotAnObject>>),
                      Json("scalar", << >>) },
      segs \in { << >>, <<segLamp>> } }

BlockTexts ==
  { Text(lead, NoJson, segs) : lead \in Leads, segs \in SeqsUpTo(Segments, MaxBlocks) }

ParseInputs == DecodableTexts \cup BlockTexts


(***************************************************************************)
(* State                                                                   *)
(***************************************************************************)

VARIABLES
  \* FileParser.parse, one call: the argument, the position in the body,
  \* the decoded value, the parsers run so far, the listings found before
  \* deduplication, and what the call gave once it ended
  file_content, parse_pc, data, ran, found, parse_out

parseVars == <<file_content, parse_pc, data, ran, found, parse_out>>

VARIABLES
  \* EmailVerifier.check_mailbox_exists, one call: the argument, the position
  \* in the body, the network steps taken so far with the status each was
  \* answered with (0: it raised; 1: MX records), the state of the SMTP
  \* connection, the value of
  \* the local `code`, and the value returned
  probe_email, probe_pc, steps, replies, conn, code, returned

probeVars == <<probe_email, probe_pc, steps, replies, conn, code, returned>>

VARIABLES
  \* EmailVerifier: the two sets and the free slots of the semaphore
  valid_emails, new_valid_emails, semaphore,
  \* TelegramBot.handle_document, one call per uploaded document: its position,
  \* and the locals of its verify_all call: normalized_listings, tasks (the
  \* pairs email, already_verified) and the list verify_all returns
  handler, normalized_listings, tasks, results,
  \* the verify coroutines of each verify_all call, one per listing
  verify,
  \* per document: whether one of its verify calls returned while a call for
  \* an earlier listing of the document had not (kept for the record)
  overtook,
  \* valid_emails.txt as its lines in order (each without its line end)
  store,
  \* the save_valid_emails call of each document: its position, the set
  \* iterator of line 53 (the size of the set when iteration began and the
  \* elements it has given), the lines written to the file object and not
  \* yet in the file, and the store and the two sets as the call found them
  \* (kept for the record)
  flush,
  \* the messages send_results and send_export_file have sent for each
  \* document
  outbox

botVars == <<store, flush, outbox>>

engineVars ==
  <<valid_emails, new_valid_emails, semaphore, handler, normalized_listings, tasks,
    results, verify, overtook, botVars>>

vars == <<parseVars, probeVars, engineVars>>

(***************************************************************************)
(* FileParser.parse, step by step                                          *)
(***************************************************************************)

NoResult == ParseResult("", << >>, "")

ParseIdle ==
  /\ file_content = Text(<< >>, NoJson, << >>)
  /\ parse_pc = "idle"
  /\ data = NoJson
  /\ ran = << >>
  /\ found = << >>
  /\ parse_out = NoResult

ParseInit ==
  /\ file_content \in ParseInputs
  /\ parse_pc = "decode"
  /\ data = NoJson
  /\ ran = << >>
  /\ found = << >>
  /\ parse_out = NoResult

\* lines 117-119 and the except clause of lines 123-124
ParseDecode ==
  /\ UNCHANGED <<probeVars, engineVars>>
  /\ parse_pc = "decode"
  /\ LET content == Normalize(file_content)
         decoded == json_loads(content)
     IN  /\ file_content' = content
         /\ data' = decoded
         /\ parse_pc' = IF decoded.ok THEN "json" ELSE "blocks"
  /\ UNCHANGED <<ran, found, parse_out>>

\* lines 120-122: an exception of parse_carousell_json leaves parse
ParseJson ==
  /\ UNCHANGED <<probeVars, engineVars>>
  /\ parse_pc = "json"
  /\ ran' = Append(ran, "json")
  /\ LET atom == parse_carousell_json(data)
     IN  \/ /\ atom.exc # ""
            /\ parse_pc' = "raised"
            /\ parse_out' = ParseResult(atom.exc, << >>, "")
            /\ UNCHANGED found
         \/ /\ atom.exc = ""
            /\ AtomFound(atom.listings)
            /\ found' = atom.listings
            /\ parse_out' = ParseResult("", deduplicate_listings(atom.listings), "Atom Parser")
            /\ parse_pc' = "returned"
         \/ /\ atom.exc = ""
            /\ ~AtomFound(atom.listings)
            /\ parse_pc' = "blocks"
            /\ UNCHANGED <<found, parse_out>>
  /\ UNCHANGED <<file_content, data>>

\* lines 126-127
ParseBlocks ==
  /\ UNCHANGED <<probeVars, engineVars>>
  /\ parse_pc = "blocks"
  /\ ran' = Append(ran, "blocks")
  /\ LET g6 == parse_carousell_blocks(file_content.segs)
     IN  /\ found' = g6
         /\ parse_out' = ParseResult("", deduplicate_listings(g6), "G6 Parser")
  /\ parse_pc' = "returned"
  /\ UNCHANGED <<file_content, data>>

(***************************************************************************)
(* EmailVerifier.check_mailbox_exists, step by step.  The resolver and the *)
(* mail server are the environment: each step either is answered or        *)
(* raises (a DNS failure, a refused connection, a timeout, a dropped       *)
(* connection).                                                            *)
(***************************************************************************)

\* Mutant: the suffix test without the "@"
is_supported_domain_NoAt(e) ==
  \E i \in DOMAIN COMMON_EMAIL_DOMAINS : endswith(e, COMMON_EMAIL_DOMAINS[i])

\* is_supported_domain (lines 89-91)
is_supported_domain(e) ==
  \E i \in DOMAIN COMMON_EMAIL_DOMAINS : endswith(e, <<"@">> \o COMMON_EMAIL_DOMAINS[i])

\* Mutant: any status of the 2xx class counts
Deliverable_Any2xx(c) == c \in 200..299

\* return code == 250 (line 84)
Deliverable(c) == c = 250

\* Status codes a server may answer a command with.
ReplyCodes == {250, 251, 550}
\* The answers to QUIT that SMTP.__exit__ tells apart: 221 or another code.
QuitCodes == {221, 500}

ProbeEmails ==
  { habcd \o <<"@">> \o COMMON_EMAIL_DOMAINS[1],
    hwxyz \o <<"@">> \o COMMON_EMAIL_DOMAINS[1],
    habcd \o <<"@", "x">> \o COMMON_EMAIL_DOMAINS[1],
    habcd \o <<"@", "x", "@">> \o COMMON_EMAIL_DOMAINS[1],
    habcd \o <<"@", "o", ".", "o", "r", "g">>,
    COMMON_EMAIL_DOMAINS[1],
    habcd }

ProbeIdle ==
  /\ probe_email = << >>
  /\ probe_pc = "idle"
  /\ steps = << >>
  /\ replies = << >>
  /\ conn = "none"
  /\ code = 0
  /\ returned = "none"

ProbeInit ==
  /\ probe_email \in ProbeEmails
  /\ probe_pc = "start"
  /\ steps = << >>
  /\ replies = << >>
  /\ conn = "none"
  /\ code = 0
  /\ returned = "none"

Step(name, reply) ==
  /\ steps' = Append(steps, name)
  /\ replies' = Append(replies, reply)

\* lines 72-73
ProbeCheckDomain ==
  /\ UNCHANGED <<parseVars, engineVars>>
  /\ probe_pc = "start"
  /\ IF is_supported_domain(probe_email)
     THEN probe_pc' = "resolve" /\ UNCHANGED returned
     ELSE probe_pc' = "done" /\ returned' = "False"
  /\ UNCHANGED <<probe_email, steps, replies, conn, code>>

\* lines 75-77: dns.resolver.resolve answers with records or raises
ProbeResolve ==
  /\ UNCHANGED <<parseVars, engineVars>>
  /\ probe_pc = "resolve"
  /\ \/ Step("MX", 1) /\ probe_pc' = "connect"
     \/ Step("MX", 0) /\ probe_pc' = "except"
  /\ UNCHANGED <<probe_email, conn, code, returned>>

\* line 79, smtplib.SMTP(mx_record, timeout=...): the constructor connects
\* and reads the greeting; it raises when the connection fails, and closes
\* the socket itself and raises when the greeting is not 220.
ProbeConnect ==
  /\ UNCHANGED <<parseVars, engineVars>>
  /\ probe_pc = "connect"
  /\ \/ Step("CONNECT", 220) /\ conn' = "open"   /\ probe_pc' = "helo"
     \/ Step("CONNECT", 0)   /\ conn' = "none"   /\ probe_pc' = "except"
     \/ Step("CONNECT", 554) /\ conn' = "closed" /\ probe_pc' = "except"
  /\ UNCHANGED <<probe_email, code, returned>>

\* Mutant: a command that raises is tried again
Command_Retry(name, next) ==
  \/ \E c \in ReplyCodes : Step(name, c) /\ probe_pc' = next
  \/ Step(name, 0) /\ probe_pc' = IF Len(steps) < 8 THEN probe_pc ELSE "exit_raising"

\* A command inside the with block (lines 80-82): answered with a status,
\* whatever it is, or raising, which leaves the block.
Command(name, next) ==
  \/ \E c \in ReplyCodes : Step(name, c) /\ probe_pc' = next
  \/ Step(name, 0) /\ probe_pc' = "exit_raising"

\* line 80, server.helo()
ProbeHelo ==
  /\ UNCHANGED <<parseVars, engineVars>>
  /\ probe_pc = "helo"
  /\ Command("HELO", "mail")
  /\ UNCHANGED <<probe_email, conn, code, returned>>

\* line 81, server.mail('me@example.com')
ProbeMail ==
  /\ UNCHANGED <<parseVars, engineVars>>
  /\ probe_pc = "mail"
  /\ Command("MAIL", "rcpt")
  /\ UNCHANGED <<probe_email, conn, code, returned>>

\* line 82, code, _ = server.rcpt(email)
ProbeRcpt ==
  /\ UNCHANGED <<parseVars, engineVars>>
  /\ probe_pc = "rcpt"
  /\ Command("RCPT", "exit")
  /\ code' = IF probe_pc' = "exit" THEN replies'[Len(replies')] ELSE code
  /\ UNCHANGED <<probe_email, conn, returned>>

\* The end of the with block (line 79), SMTP.__exit__: QUIT is sent; a reply
\* other than 221 raises, a dropped connection is ignored; the connection
\* is closed in every case.  Then line 84, or the handler of line 85.
ProbeExit ==
  /\ UNCHANGED <<parseVars, engineVars>>
  /\ probe_pc \in {"exit", "exit_raising"}
  /\ conn' = "closed"
  /\ \/ /\ Step("QUIT", 221)
        /\ probe_pc' = IF probe_pc = "exit" THEN "return" ELSE "except"
     \/ /\ Step("QUIT", 0)
        /\ probe_pc' = IF probe_pc = "exit" THEN "return" ELSE "except"
     \/ /\ \E c \in QuitCodes \ {221} : Step("QUIT", c)
        /\ probe_pc' = "except"
  /\ UNCHANGED <<probe_email, code, returned>>

\* line 84
ProbeReturn ==
  /\ UNCHANGED <<parseVars, engineVars>>
  /\ probe_pc = "return"
  /\ returned' = IF Deliverable(code) THEN "True" ELSE "False"
  /\ probe_pc' = "done"
  /\ UNCHANGED <<probe_email, steps, replies, conn, code>>

\* lines 85-87
ProbeExcept ==
  /\ UNCHANGED <<parseVars, engineVars>>
  /\ probe_pc = "except"
  /\ returned' = "False"
  /\ probe_pc' = "done"
  /\ UNCHANGED <<probe_email, steps, replies, conn, code>>

(***************************************************************************)
(* EmailVerifier.verify and TelegramBot.verify_all on the event loop.      *)
(* Coroutines run one at a time and are interleaved at their awaits; the   *)
(* probes run in worker threads, beside the loop.                          *)
(***************************************************************************)

\* Bounds: the capacity of the semaphore (the source sets 10, line 19; the
\* model scales it down so that more probes than slots are reachable) and
\* the number of documents handled, concurrently or one after another, and
\* the number of verify calls of a run, over all documents.
MAX_CONCURRENT_REQUESTS == 2
NumDocuments == 2
MaxCalls == 4

Documents == 1..NumDocuments

eAbcd == habcd \o <<"@">> \o COMMON_EMAIL_DOMAINS[1]
eWxyz == hwxyz \o <<"@">> \o COMMON_EMAIL_DOMAINS[1]

itemA == Item(JStr(hAbcd), JStr(img1), JStr(link1), JStr(<<"T">>), JStr(<<"$","1">>))
itemB == Item(JStr(habcd), JStr(img1), JStr(link2), JStr(<<"T">>), JNum(10))
itemC == Item(JStr(hwxyz), JStr(img1), JStr(link1), JStr(<<" ","T"," ">>), JStr(<<"1">>))

\* The documents uploaded: three listings of two sellers (structured
\* format), one listing (block format, the seller of the third listing), a
\* document without listings and a JSON array.
Uploads ==
  { Text(<< >>, Json("object", <<itemA, itemB, itemC>>), << >>),
    Text(<<BOM>>, NoJson, <<segPen>>),
    Text(<< >>, NoJson, << >>),
    Text(<< >>, Json("array", << >>), << >>) }

\* What valid_emails.txt may hold when the verifier is constructed: nothing
\* (or no file); or an address as save_valid_emails writes it, a line with
\* an upper-case letter and a blank around it, and a blank line.
StoredAtStart ==
  { << >>,
    << eWxyz, <<" ">> \o hAbcd \o <<"@">> \o COMMON_EMAIL_DOMAINS[1] \o <<" ">>, <<" ">> >> }

\* load_valid_emails (lines 40-46) on the lines of the file
load_valid_emails(lines) ==
  { strip(lines[k]) : k \in { j \in DOMAIN lines : strip(lines[j]) # << >> } }

\* The call of save_valid_emails of a document; at_call is the store and
\* the two sets as the call found them.
Flush(pc, used, seen, buffer, at_call) ==
  [pc |-> pc, used |-> used, seen |-> seen, buffer |-> buffer, at_call |-> at_call]

Snapshot(lines, pending, known) == [store |-> lines, pending |-> pending, known |-> known]

NoFlush == Flush("none", 0, {}, << >>, Snapshot(<< >>, {}, {}))

\* Mutant: the file opened for writing instead of appending
append_Overwrite(lines, buffer) == buffer

\* The file after lines were written to it in mode 'a' (line 52)
append(lines, buffer) == lines \o buffer

\* What check_mailbox_exists may return for an address: see the step-by-step
\* model above; the mail server decides for a supported domain.
ProbeOutcomes(e) == IF is_supported_domain(e) THEN {TRUE, FALSE} ELSE {FALSE}

\* A verify coroutine: its position, the local `normalized`, the local
\* `result` (the value returned once pc = "done") and whether it called
\* check_mailbox_exists.
Coroutine(pc, normalized, result, probed) ==
  [pc |-> pc, normalized |-> normalized, result |-> result, probed |-> probed]

Calls == { <<d, i>> : d \in Documents, i \in 1..MaxCalls }
Running == { c \in Calls : c[2] \in DOMAIN verify[c[1]] }
At(pc) == { c \in Running : verify[c[1]][c[2]].pc = pc }

\* The semaphore of line 35, as its number of free slots: locked(), and the
\* entry and exit of `async with self.semaphore` (lines 63-68).
locked == semaphore <= 0
\* Mutant: the probe is started without taking a slot
acquire_Forgotten(s) == s
acquire(s) == s - 1
\* Mutant: the slot is not given back
release_Forgotten(s) == s
release(s) == s + 1

\* Mutant: the cache is not consulted
cache_hit_Never(normalized) == FALSE

\* if normalized in self.valid_emails (line 61)
cache_hit(normalized) == normalized \in valid_emails

EngineIdle ==
  /\ valid_emails = {}
  /\ new_valid_emails = {}
  /\ semaphore = MAX_CONCURRENT_REQUESTS
  /\ handler = [d \in Documents |-> "idle"]
  /\ normalized_listings = [d \in Documents |-> << >>]
  /\ tasks = [d \in Documents |-> << >>]
  /\ results = [d \in Documents |-> << >>]
  /\ verify = [d \in Documents |-> << >>]
  /\ overtook = [d \in Documents |-> FALSE]
  /\ store = << >>
  /\ flush = [d \in Documents |-> NoFlush]
  /\ outbox = [d \in Documents |-> << >>]

\* EmailVerifier.__init__ (lines 34-38) and TelegramBot.__init__
EngineInit ==
  /\ store \in StoredAtStart
  /\ valid_emails = load_valid_emails(store)
  /\ flush = [d \in Documents |-> NoFlush]
  /\ outbox = [d \in Documents |-> << >>]
  /\ new_valid_emails = {}
  /\ semaphore = MAX_CONCURRENT_REQUESTS
  /\ handler = [d \in Documents |-> "idle"]
  /\ normalized_listings = [d \in Documents |-> << >>]
  /\ tasks = [d \in Documents |-> << >>]
  /\ results = [d \in Documents |-> << >>]
  /\ verify = [d \in Documents |-> << >>]
  /\ overtook = [d \in Documents |-> FALSE]

\* handle_document (lines 226-253) up to the await of verify_all's gather
\* (lines 263-272): parse, then for each listing the pair (email,
\* already_verified) and a verify coroutine, not yet run.
\* (Documents are numbered in the order of their arrival.)
HandleDocument(d) ==
  /\ handler[d] = "idle"
  /\ d > 1 => handler[d - 1] # "idle"
  /\ UNCHANGED <<parseVars, probeVars, botVars>>
  /\ \E upload \in Uploads :
       LET parsed == parse(upload)
           n      == Len(parsed.listings)
       IN  \/ /\ parsed.exc # ""
              /\ handler' = [handler EXCEPT ![d] = "error"]
              /\ UNCHANGED <<normalized_listings, tasks, verify>>
           \/ /\ parsed.exc = ""
              /\ n = 0
              /\ handler' = [handler EXCEPT ![d] = "no_listings"]
              /\ UNCHANGED <<normalized_listings, tasks, verify>>
           \/ /\ parsed.exc = ""
              /\ n > 0
              /\ Cardinality(Running) + n <= MaxCalls
              /\ handler' = [handler EXCEPT ![d] = "gather"]
              /\ normalized_listings' = [normalized_listings EXCEPT ![d] = parsed.listings]
              /\ tasks' = [tasks EXCEPT ![d] =
                   [i \in 1..n |-> << email(parsed.listings[i]),
                                      email(parsed.listings[i]) \in valid_emails >>]]
              /\ verify' = [verify EXCEPT ![d] =
                   [i \in 1..n |-> Coroutine("created", << >>, FALSE, FALSE)]]
  /\ UNCHANGED <<valid_emails, new_valid_emails, semaphore, results, overtook>>

\* verify on its first run (lines 60-64): the cache hit returns; otherwise
\* the semaphore is acquired at once when it is not locked, and the probe
\* is handed to a worker thread (asyncio.to_thread); when it is locked the
\* coroutine waits.
VerifyStart(d, i) ==
  /\ UNCHANGED <<parseVars, probeVars, botVars>>
  /\ <<d, i>> \in At("created")
  /\ LET normalized == lower(strip(tasks[d][i][1]))
     IN  \/ /\ cache_hit(normalized)
            /\ verify' = [verify EXCEPT ![d][i] = Coroutine("done", normalized, TRUE, FALSE)]
            /\ UNCHANGED semaphore
         \/ /\ ~cache_hit(normalized)
            /\ ~locked
            /\ semaphore' = acquire(semaphore)
            /\ verify' = [verify EXCEPT ![d][i] = Coroutine("submitted", normalized, FALSE, FALSE)]
         \/ /\ ~cache_hit(normalized)
            /\ locked
            /\ verify' = [verify EXCEPT ![d][i] = Coroutine("waiting", normalized, FALSE, FALSE)]
            /\ UNCHANGED semaphore
  /\ UNCHANGED <<valid_emails, new_valid_emails, handler, normalized_listings, tasks, results,
                 overtook>>

\* A waiting verify gets a slot (line 63) and hands its probe to a worker
\* thread (line 64).  Which of the waiting coroutines gets a freed slot, or
\* whether a coroutine that starts gets it, is left open.
VerifyAcquire(d, i) ==
  /\ UNCHANGED <<parseVars, probeVars, botVars>>
  /\ <<d, i>> \in At("waiting")
  /\ ~locked
  /\ semaphore' = acquire(semaphore)
  /\ verify' = [verify EXCEPT ![d][i].pc = "submitted"]
  /\ UNCHANGED <<valid_emails, new_valid_emails, handler, normalized_listings, tasks, results,
                 overtook>>

\* A worker thread starts check_mailbox_exists (line 64)
ProbeStart(d, i) ==
  /\ UNCHANGED <<parseVars, probeVars, botVars>>
  /\ <<d, i>> \in At("submitted")
  /\ verify' = [verify EXCEPT ![d][i].pc = "probing", ![d][i].probed = TRUE]
  /\ UNCHANGED <<valid_emails, new_valid_emails, semaphore, handler, normalized_listings,
                 tasks, results, overtook>>

\* check_mailbox_exists returns in its thread (lines 70-87)
ProbeEnd(d, i) ==
  /\ UNCHANGED <<parseVars, probeVars, botVars>>
  /\ <<d, i>> \in At("probing")
  /\ \E r \in ProbeOutcomes(verify[d][i].normalized) :
       verify' = [verify EXCEPT ![d][i].pc = "probed", ![d][i].result = r]
  /\ UNCHANGED <<valid_emails, new_valid_emails, semaphore, handler, normalized_listings,
                 tasks, results, overtook>>

\* Mutant: the address is not recorded
add_Dropped(set, normalized) == set

\* set.add (lines 66-67)
add(set, normalized) == set \cup {normalized}

\* verify resumes with the result (lines 65-68) and leaves the async with.
\* The loop runs the first steps of the coroutines of one gather, queued
\* together at line 272, before it resumes any of them.
VerifyResume(d, i) ==
  /\ UNCHANGED <<parseVars, probeVars, botVars>>
  /\ <<d, i>> \in At("probed")
  /\ \A j \in DOMAIN verify[d] : verify[d][j].pc # "created"
  /\ LET me == verify[d][i]
     IN  /\ valid_emails' = IF me.result THEN add(valid_emails, me.normalized) ELSE valid_emails
         /\ new_valid_emails' =
              IF me.result THEN add(new_valid_emails, me.normalized) ELSE new_valid_emails
  /\ semaphore' = release(semaphore)
  /\ verify' = [verify EXCEPT ![d][i].pc = "done"]
  /\ overtook' = [overtook EXCEPT ![d] = @ \/ \E j \in 1..(i - 1) : verify[d][j].pc # "done"]
  /\ UNCHANGED <<handler, normalized_listings, tasks, results>>

\* Mutant: the values of gather read from the end
Records_Reversed(d) ==
  [i \in DOMAIN normalized_listings[d] |->
     [listing |-> normalized_listings[d][i],
      email |-> tasks[d][i][1],
      already_verified |-> tasks[d][i][2],
      valid |-> verify[d][Len(verify[d]) + 1 - i].result]]

\* The list verify_all returns (lines 274-282)
Records(d) ==
  [i \in DOMAIN normalized_listings[d] |->
     [listing |-> normalized_listings[d][i],
      email |-> tasks[d][i][1],
      already_verified |-> tasks[d][i][2],
      valid |-> verify[d][i].result]]

\* Mutant: the wait ends with the first verify that returns
gather_done_FirstCompleted(d) == \E i \in DOMAIN verify[d] : verify[d][i].pc = "done"

\* asyncio.gather is done when every verify has returned (line 272)
gather_done(d) == \A i \in DOMAIN verify[d] : verify[d][i].pc = "done"

\* verify_all returns (lines 272-282), handle_document calls send_results
\* (line 254), which makes its first request.
VerifyAllReturn(d) ==
  /\ UNCHANGED <<parseVars, probeVars, botVars>>
  /\ handler[d] = "gather"
  /\ gather_done(d)
  /\ results' = [results EXCEPT ![d] = Records(d)]
  /\ handler' = [handler EXCEPT ![d] = "verified"]
  /\ UNCHANGED <<valid_emails, new_valid_emails, semaphore, normalized_listings, tasks, verify,
                 overtook>>

\* The three lists of send_results (lines 286-288)
valid_new(rs)    == SelectSeq(rs, LAMBDA r : r.valid /\ ~r.already_verified)
valid_cached(rs) == SelectSeq(rs, LAMBDA r : r.valid /\ r.already_verified)
invalid(rs)      == SelectSeq(rs, LAMBDA r : ~r.valid)

\* The messages of lines 290-310: one per new deliverable record, then the
\* summary with the four counts.
Summary(rs) ==
  [kind |-> "summary", total |-> Len(rs), new |-> Len(valid_new(rs)),
   cached |-> Len(valid_cached(rs)), undeliverable |-> Len(invalid(rs))]

RecordMessage(r) == [kind |-> "record", email |-> r.email]

ResultMessages(rs) ==
  [i \in 1..Len(valid_new(rs)) |-> RecordMessage(valid_new(rs)[i])] \o << Summary(rs) >>

\* send_results from its first request to the first await of
\* save_valid_emails (lines 290-311, 50-52).  The messages are sent one by
\* one; a request that fails raises, and handle_document answers with its
\* error message (lines 256-258).  After the summary save_valid_emails is
\* called: it returns at once when new_valid_emails is empty (lines 50-51),
\* and send_results goes on to send_export_file (line 313); otherwise it
\* opens the file for appending (line 52).
SendResults(d) ==
  /\ UNCHANGED <<parseVars, probeVars>>
  /\ handler[d] = "verified"
  /\ LET msgs == ResultMessages(results[d])
     IN  \/ /\ outbox' = [outbox EXCEPT ![d] = msgs]
            /\ new_valid_emails = {}
            /\ flush' = [flush EXCEPT ![d] =
                 Flush("returned", 0, {}, << >>, Snapshot(store, {}, valid_emails))]
            /\ handler' = [handler EXCEPT ![d] = "export"]
         \/ /\ outbox' = [outbox EXCEPT ![d] = msgs]
            /\ new_valid_emails # {}
            /\ flush' = [flush EXCEPT ![d] =
                 Flush("open", 0, {}, << >>, Snapshot(store, new_valid_emails, valid_emails))]
            /\ handler' = [handler EXCEPT ![d] = "save"]
         \/ \E k \in 0..(Len(msgs) - 1) :
              /\ outbox' = [outbox EXCEPT ![d] = SubSeq(msgs, 1, k)]
              /\ handler' = [handler EXCEPT ![d] = "error"]
              /\ UNCHANGED flush
  /\ UNCHANGED <<valid_emails, new_valid_emails, semaphore, normalized_listings, tasks,
                 results, verify, overtook, store>>

\* The file is open; the for statement of line 53 makes an iterator of the
\* set as it is now and takes the first element, which line 54 writes; an
\* empty set ends the loop, and the file is closed.
FlushOpened(d) ==
  /\ UNCHANGED <<parseVars, probeVars>>
  /\ flush[d].pc = "open"
  /\ \/ /\ new_valid_emails = {}
        /\ flush' = [flush EXCEPT ![d].pc = "close"]
     \/ \E e \in new_valid_emails :
          flush' = [flush EXCEPT ![d].pc = "write",
                                 ![d].used = Cardinality(new_valid_emails),
                                 ![d].seen = {e},
                                 ![d].buffer = <<e>>]
  /\ UNCHANGED <<valid_emails, new_valid_emails, semaphore, handler, normalized_listings,
                 tasks, results, verify, overtook, store, outbox>>

\* A write is done (line 54) and the iterator is asked for the next
\* element.  A set iterator raises RuntimeError when the size of the set is
\* not what it was when the iteration began; the exception leaves the
\* async with, which closes the file, and then save_valid_emails,
\* send_results and the try block of handle_document (lines 256-258).
\* Otherwise it gives an element not given yet, or ends; what it does with
\* a set that was emptied and filled again depends on the hash table.
FlushWritten(d) ==
  /\ UNCHANGED <<parseVars, probeVars>>
  /\ flush[d].pc = "write"
  /\ \/ /\ Cardinality(new_valid_emails) # flush[d].used
        /\ store' = append(store, flush[d].buffer)
        /\ flush' = [flush EXCEPT ![d].pc = "raised", ![d].buffer = << >>]
        /\ handler' = [handler EXCEPT ![d] = "error"]
     \/ /\ Cardinality(new_valid_emails) = flush[d].used
        /\ \E e \in new_valid_emails \ flush[d].seen :
             flush' = [flush EXCEPT ![d].seen = @ \cup {e}, ![d].buffer = Append(@, e)]
        /\ UNCHANGED <<store, handler>>
     \/ /\ Cardinality(new_valid_emails) = flush[d].used
        /\ \/ new_valid_emails \subseteq flush[d].seen
           \/ ~(flush[d].seen \subseteq new_valid_emails)
        /\ flush' = [flush EXCEPT ![d].pc = "close"]
        /\ UNCHANGED <<store, handler>>
  /\ UNCHANGED <<valid_emails, new_valid_emails, semaphore, normalized_listings, tasks,
                 results, verify, overtook, outbox>>

\* The file is closed, which puts the lines written into it; then
\* new_valid_emails is cleared (line 56), save_valid_emails returns and
\* send_results goes on to send_export_file (line 313).
FlushClosed(d) ==
  /\ UNCHANGED <<parseVars, probeVars>>
  /\ flush[d].pc = "close"
  /\ store' = append(store, flush[d].buffer)
  /\ new_valid_emails' = {}
  /\ flush' = [flush EXCEPT ![d].pc = "returned", ![d].buffer = << >>]
  /\ handler' = [handler EXCEPT ![d] = "export"]
  /\ UNCHANGED <<valid_emails, semaphore, normalized_listings, tasks, results, verify,
                 overtook, outbox>>

\* Opening, writing or closing the file fails (OSError): the lines written
\* so far reach the file or not, new_valid_emails is not cleared, and the
\* exception leaves save_valid_emails and send_results for the except
\* clause of handle_document (lines 256-258).
FlushFail(d) ==
  /\ UNCHANGED <<parseVars, probeVars>>
  /\ flush[d].pc \in {"open", "write", "close"}
  /\ store' \in {store, append(store, flush[d].buffer)}
  /\ flush' = [flush EXCEPT ![d].pc = "failed", ![d].buffer = << >>]
  /\ handler' = [handler EXCEPT ![d] = "error"]
  /\ UNCHANGED <<valid_emails, new_valid_emails, semaphore, normalized_listings, tasks,
                 results, verify, overtook, outbox>>

\* send_export_file (lines 315-345): the file of the deliverable records, a
\* message that it could not be sent, or the message that there is none.
SendExport(d) ==
  /\ UNCHANGED <<parseVars, probeVars>>
  /\ handler[d] = "export"
  /\ LET valid_results == valid_new(results[d]) \o valid_cached(results[d])
         export == [kind |-> "export",
                    lines |-> [i \in DOMAIN valid_results |-> valid_results[i].email]]
     IN  \/ /\ valid_results = << >>
            /\ outbox' = [outbox EXCEPT ![d] = Append(@, [kind |-> "no_export"])]
         \/ /\ valid_results # << >>
            /\ outbox' = [outbox EXCEPT ![d] = Append(@, export)]
         \/ /\ valid_results # << >>
            /\ outbox' = [outbox EXCEPT ![d] = Append(@, [kind |-> "export_failed"])]
  /\ handler' = [handler EXCEPT ![d] = "done"]
  /\ UNCHANGED <<valid_emails, new_valid_emails, semaphore, normalized_listings, tasks,
                 results, verify, overtook, store, flush>>

(***************************************************************************)
(* Specifications                                                          *)
(***************************************************************************)

InitParse == ParseInit /\ ProbeIdle /\ EngineIdle
NextParse ==
  \/ ParseDecode
  \/ ParseJson
  \/ ParseBlocks
SpecParse == InitParse /\ [][NextParse]_vars

InitProbe == ProbeInit /\ ParseIdle /\ EngineIdle
NextProbe ==
  \/ ProbeCheckDomain
  \/ ProbeResolve
  \/ ProbeConnect
  \/ ProbeHelo
  \/ ProbeMail
  \/ ProbeRcpt
  \/ ProbeExit
  \/ ProbeReturn
  \/ ProbeExcept
SpecProbe == InitProbe /\ [][NextProbe]_vars

Init == EngineInit /\ ParseIdle /\ ProbeIdle
Next ==
  \/ \E d \in Documents : HandleDocument(d)
  \/ \E c \in Calls : VerifyStart(c[1], c[2])
  \/ \E c \in Calls : VerifyAcquire(c[1], c[2])
  \/ \E c \in Calls : ProbeStart(c[1], c[2])
  \/ \E c \in Calls : ProbeEnd(c[1], c[2])
  \/ \E c \in Calls : VerifyResume(c[1], c[2])
  \/ \E d \in Documents : VerifyAllReturn(d)
Spec == Init /\ [][Next]_vars

\* The scheduling of the verification: the event loop runs every coroutine
\* that is ready, the executor starts every probe handed to it, and every
\* probe returns (check_mailbox_exists has a timeout and catches every
\* exception).  Nothing obliges a document to arrive.  (Every call takes
\* each of its steps once, so it is enough to ask that some step is taken
\* as long as one can be.)
Scheduled ==
  \/ \E c \in Calls : VerifyStart(c[1], c[2])
  \/ \E c \in Calls : VerifyAcquire(c[1], c[2])
  \/ \E c \in Calls : ProbeStart(c[1], c[2])
  \/ \E c \in Calls : ProbeEnd(c[1], c[2])
  \/ \E c \in Calls : VerifyResume(c[1], c[2])
  \/ \E d \in Documents : VerifyAllReturn(d)
Fairness == WF_vars(Scheduled)
FairSpec == Spec /\ Fairness

\* handle_document as a whole: the verification above, then send_results
\* with save_valid_emails and send_export_file.
NextBot ==
  \/ \E d \in Documents : HandleDocument(d)
  \/ \E c \in Calls : VerifyStart(c[1], c[2])
  \/ \E c \in Calls : VerifyAcquire(c[1], c[2])
  \/ \E c \in Calls : ProbeStart(c[1], c[2])
  \/ \E c \in Calls : ProbeEnd(c[1], c[2])
  \/ \E c \in Calls : VerifyResume(c[1], c[2])
  \/ \E d \in Documents : VerifyAllReturn(d)
  \/ \E d \in Documents : SendResults(d)
  \/ \E d \in Documents : FlushOpened(d)
  \/ \E d \in Documents : FlushWritten(d)
  \/ \E d \in Documents : FlushClosed(d)
  \/ \E d \in Documents : FlushFail(d)
  \/ \E d \in Documents : SendExport(d)
SpecBot == Init /\ [][NextBot]_vars

(***************************************************************************)
(* Claims about FileParser.parse, checked under SpecParse                  *)
(***************************************************************************)

ParseEnded == parse_pc \in {"returned", "raised"}

\* An item the structured format accepts: an object whose seller is a
\* handle and whose other four fields are present and not empty.
Accepted(item) ==
  /\ item.isdict
  /\ item.seller.t = "str" /\ fullmatch_seller(item.seller.s)
  /\ \A f \in {"img_url", "adLink", "title"} : item[f].t = "str" /\ item[f].s # << >>
  /\ \/ item.price.t = "str" /\ item.price.s # << >>
     \/ item.price.t = "num" /\ item.price.n # 0

SomeAccepted == data.ok /\ \E i \in DOMAIN data.vals : Accepted(data.vals[i])

\* C8: once parse has ended: if the text decoded and held an accepted item,
\* parse returned with the label "Atom Parser" and block parsing was not
\* run; if decoding failed or no item was accepted, parse returned the
\* block-format parsing of the same text with the label "G6 Parser".
C8_FormatDispatch ==
  ParseEnded =>
    IF SomeAccepted
    THEN /\ parse_pc = "returned"
         /\ parse_out.label = "Atom Parser"
         /\ "blocks" \notin Range(ran)
    ELSE /\ parse_pc = "returned"
         /\ parse_out.label = "G6 Parser"
         /\ parse_out.listings =
              deduplicate_listings(parse_carousell_blocks(file_content.segs))

\* C9: parse never ends in an error: it never raises, and what it returns
\* is a listing sequence with one of the two labels.
C9_ParseNeverRaises ==
  /\ parse_pc # "raised"
  /\ parse_pc = "returned" =>
       parse_out.exc = "" /\ parse_out.label \in {"Atom Parser", "G6 Parser"}

KeyOf(l) == << lower(l.seller), l.link >>

\* The place of the first listing found with the key k.
FirstWith(k) ==
  CHOOSE i \in DOMAIN found :
    KeyOf(found[i]) = k /\ \A j \in 1..(i - 1) : KeyOf(found[j]) # k

\* C10: in the sequence parse returns no two listings share the key
\* (seller lowercased, link); every key found has a survivor, which is the
\* first listing found with that key; and the survivors are in the order of
\* their first occurrences.
C10_Deduplication ==
  parse_pc = "returned" =>
    LET out == parse_out.listings
    IN  /\ \A i, j \in DOMAIN out : i # j => KeyOf(out[i]) # KeyOf(out[j])
        /\ \A k \in DOMAIN found : \E i \in DOMAIN out : KeyOf(out[i]) = KeyOf(found[k])
        /\ \A i \in DOMAIN out :
             /\ \E k \in DOMAIN found : KeyOf(found[k]) = KeyOf(out[i])
             /\ out[i] = found[FirstWith(KeyOf(out[i]))]
        /\ \A i, j \in DOMAIN out :
             i < j => FirstWith(KeyOf(out[i])) < FirstWith(KeyOf(out[j]))

\* A returned call in which a later listing repeated the key of an earlier
\* one, in other letter case, with another listing in between.
C10_Witness ==
  /\ parse_pc = "returned"
  /\ \E i, j, k \in DOMAIN found :
       /\ i < j /\ j < k
       /\ KeyOf(found[i]) = KeyOf(found[k])
       /\ found[i] # found[k]
       /\ found[i].seller # found[k].seller
       /\ KeyOf(found[i]) # KeyOf(found[j])
  /\ Len(parse_out.listings) = 2

\* A seller string the claim calls invalid: shorter than 4, longer than 30,
\* or with a character outside [A-Za-z0-9_.-].
InvalidSellerText(s) ==
  \/ Len(s) < 4
  \/ Len(s) > 30
  \/ \E i \in DOMAIN s : s[i] \notin (Range(UpperLetters) \cup Range(LowerLetters)
                                        \cup Range(Digits) \cup {"_", ".", "-"})

\* The seller string of a block: the text that follows the seller label,
\* after the white space, up to the next white space or the end.
SellerText(seg) ==
  LET t    == seg.seller.s
      body == Drop(t, Len(Run(t, Whitespace)))
  IN  Run(body, Range(body) \ Whitespace)

InvalidItems ==
  { k \in DOMAIN data.vals :
      /\ data.vals[k].isdict
      /\ data.vals[k].seller.t = "str"
      /\ InvalidSellerText(data.vals[k].seller.s) }

InvalidBlocks ==
  { k \in DOMAIN file_content.segs :
      /\ file_content.segs[k].seller.has
      /\ InvalidSellerText(SellerText(file_content.segs[k])) }

\* C11: an item of the structured format and a block of the block format
\* whose seller string is shorter than 4, longer than 30 or holds a
\* character outside [A-Za-z0-9_.-] yields no listing: the parser that
\* ran last found at most one listing per other item or block, and none
\* for such an item or block.
C11_SellerValidity ==
  parse_pc = "returned" =>
    IF ran[Len(ran)] = "json"
    THEN /\ \A k \in InvalidItems : json_item(data.vals[k]).listings = << >>
         /\ Len(found) <= Len(data.vals) - Cardinality(InvalidItems)
    ELSE /\ \A k \in InvalidBlocks :
              _build_listing_from_block(file_content.segs[k]) = << >>
         /\ Len(found) <= Len(file_content.segs) - Cardinality(InvalidBlocks)

\* The same for the structured format alone.
C11_SellerValidityStructured ==
  (parse_pc = "returned" /\ ran[Len(ran)] = "json") =>
    /\ \A k \in InvalidItems : json_item(data.vals[k]).listings = << >>
    /\ Len(found) <= Len(data.vals) - Cardinality(InvalidItems)

\* A field that is missing, empty or of white space only: of an item (the
\* key is absent or null, or the string is blank) and of a block (the label
\* is absent, or only white space follows it).
BlankValue(v) == v.t = "none" \/ (v.t = "str" /\ strip(v.s) = << >>)
BlankField(f) == ~f.has \/ strip(f.s) = << >>

Fields == {"photo", "title", "price", "link", "seller"}

BlankItems ==
  { k \in DOMAIN data.vals :
      /\ data.vals[k].isdict
      /\ \E key \in {"seller", "img_url", "adLink", "title", "price"} :
           BlankValue(data.vals[k][key]) }

BlankBlocks ==
  { k \in DOMAIN file_content.segs :
      \E f \in Fields : BlankField(file_content.segs[k][f]) }

\* C12: every listing parse returns has its five fields non-empty after
\* trimming and a seller of 4 to 30 handle characters; and an item or block
\* with a missing, empty or blank field yields no listing: the parser that
\* ran last found at most one listing per other item or block.
C12_ListingInvariant ==
  parse_pc = "returned" =>
    /\ \A i \in DOMAIN parse_out.listings :
         /\ \A f \in Fields : strip(parse_out.listings[i][f]) # << >>
         /\ ~InvalidSellerText(parse_out.listings[i].seller)
    /\ IF ran[Len(ran)] = "json"
       THEN Len(found) <= Len(data.vals) - Cardinality(BlankItems)
       ELSE Len(found) <= Len(file_content.segs) - Cardinality(BlankBlocks)

\* The same for the block format alone.
C12_ListingInvariantBlocks ==
  (parse_pc = "returned" /\ ran[Len(ran)] = "blocks") =>
    /\ \A i \in DOMAIN parse_out.listings :
         /\ \A f \in Fields : strip(parse_out.listings[i][f]) # << >>
         /\ ~InvalidSellerText(parse_out.listings[i].seller)
    /\ Len(found) <= Len(file_content.segs) - Cardinality(BlankBlocks)

(***************************************************************************)
(* Claims about verify and verify_all, checked under Spec                  *)
(***************************************************************************)

Call(c) == verify[c[1]][c[2]]
Arg(c) == tasks[c[1]][c[2]][1]

\* C1: no probe is started for an address that is in valid_emails at the
\* moment the probe starts: no step in which a worker thread enters
\* check_mailbox_exists is taken with the address of the call in
\* valid_emails.
C1_NeverReprobed ==
  [][ \A c \in Calls :
        (c \in At("submitted") /\ Call(c)'.pc = "probing")
          => Call(c).normalized \notin valid_emails ]_vars

\* C2: at most MAX_CONCURRENT_REQUESTS probes are in flight (running
\* check_mailbox_exists in a worker thread) in every reachable state.
C2_ConcurrencyBound == Cardinality(At("probing")) <= MAX_CONCURRENT_REQUESTS

\* As many probes in flight as there are slots, of two documents handled
\* concurrently, one of them with more listings than slots, and a verify
\* waiting for a slot.
C2_Witness ==
  /\ Cardinality(At("probing")) = MAX_CONCURRENT_REQUESTS
  /\ \E c1, c2 \in At("probing") : c1[1] # c2[1]
  /\ At("waiting") # {}
  /\ \E d \in Documents : Len(verify[d]) > MAX_CONCURRENT_REQUESTS

\* The step in which the verify call c runs its first step.
Starts(c) == c \in At("created") /\ Call(c)'.pc # "created"

\* C3 as stated: a verify call that starts after a call for the same address
\* has returned, whatever that call returned, is a cache hit: it returns at
\* once and starts no probe.
C3_SecondCallIsCacheHit ==
  [][ \A c \in Calls :
        (Starts(c) /\ \E e \in At("done") : Arg(e) = Arg(c))
          => Call(c)'.pc = "done" ]_vars

\* C3 as amended: a verify call that starts after a call for the same
\* address has returned True is a cache hit: it returns True at once and
\* starts no probe.
C3_SecondCallAfterTrueIsCacheHit ==
  [][ \A c \in Calls :
        (Starts(c) /\ \E e \in At("done") : Arg(e) = Arg(c) /\ Call(e).result)
          => Call(c)'.pc = "done" /\ Call(c)'.result /\ ~Call(c)'.probed ]_vars

\* Two calls for one address have returned: the first probed and returned
\* True; the second, of a document whose verify_all started after that,
\* returned True without a probe.
C3_Witness ==
  \E c1, c2 \in At("done") :
    /\ c1[1] < c2[1]
    /\ Arg(c1) = Arg(c2)
    /\ Call(c1).probed /\ Call(c1).result
    /\ tasks[c2[1]][c2[2]][2]
    /\ ~Call(c2).probed /\ Call(c2).result

\* C4: what verify_all returns has one record per listing, and the i-th
\* record holds the i-th listing, the email derived from it and the value
\* the verify call for that listing returned.
C4_OrderPreserved ==
  \A d \in Documents :
    handler[d] = "verified" =>
      /\ Len(results[d]) = Len(normalized_listings[d])
      /\ \A i \in DOMAIN results[d] :
           /\ results[d][i].listing = normalized_listings[d][i]
           /\ results[d][i].email =
                lower(normalized_listings[d][i].seller) \o <<"@">> \o COMMON_EMAIL_DOMAINS[1]
           /\ results[d][i].valid = Call(<<d, i>>).result

\* verify_all has returned for a document whose verify calls returned in
\* another order than that of the listings, with different values.
C4_Witness ==
  \E d \in Documents :
    /\ handler[d] = "verified"
    /\ overtook[d]
    /\ \E i, j \in DOMAIN results[d] : results[d][i].valid # results[d][j].valid

\* The address occurs in the store, in any letter case.
InStore(address) ==
  \E k \in DOMAIN store : lower(strip(store[k])) = lower(strip(address))

\* C14: every element of valid_emails is lowercased and trimmed, whatever
\* the store loaded held; a verify call for an address that occurs in the
\* store in any letter case is a cache hit (it returns True without a
\* probe); and verify_all computes already_verified as True for it.  (The
\* store does not change under Spec: it is the store that was loaded.)
C14_CaseInsensitiveCache ==
  /\ \A e \in valid_emails : e = lower(strip(e))
  /\ \A c \in Running :
       (Call(c).pc # "created" /\ InStore(Call(c).normalized)) =>
         /\ Call(c).pc = "done"
         /\ Call(c).result
         /\ ~Call(c).probed
  /\ \A d \in Documents : \A i \in DOMAIN tasks[d] :
       InStore(tasks[d][i][1]) => tasks[d][i][2]

\* The same for the addresses that occur in the store in lower case.
C14_CacheOfLowercaseLines ==
  /\ \A c \in Running :
       (Call(c).pc # "created" /\ \E k \in DOMAIN store : strip(store[k]) = Call(c).normalized) =>
         /\ Call(c).pc = "done"
         /\ Call(c).result
         /\ ~Call(c).probed
  /\ \A d \in Documents : \A i \in DOMAIN tasks[d] :
       (\E k \in DOMAIN store : strip(store[k]) = tasks[d][i][1]) => tasks[d][i][2]

\* The verify call c holds a slot of the semaphore.
HoldsSlot(c) == c \in At("submitted") \cup At("probing") \cup At("probed")

\* Every verify call created so far has returned, no slot is held and no
\* verify_all is waiting.  (A call that has returned stays so, a batch whose
\* verify_all has returned stays so.)
Quiet ==
  /\ \A c \in Running : c \in At("done")
  /\ \A c \in Calls : ~HoldsSlot(c)
  /\ \A d \in Documents : handler[d] # "gather"

\* C20: under the fair scheduling of FairSpec, from every state a state is
\* reached in which every verify call created has returned, every slot
\* taken was given back and verify_all of every batch has returned; all
\* slots are free whenever no call holds one; and a verify call that finds
\* its address in valid_emails returns True in that step without taking a
\* slot.
C20_Progress ==
  /\ []<>Quiet
  /\ []((\A c \in Calls : ~HoldsSlot(c)) => semaphore = MAX_CONCURRENT_REQUESTS)
  /\ [][\A c \in Calls :
          (c \in At("created") /\ c \notin At("created")'
             /\ lower(strip(Arg(c))) \in valid_emails) =>
            /\ c \in At("done")'
            /\ verify'[c[1]][c[2]].result
            /\ ~verify'[c[1]][c[2]].probed
            /\ semaphore' = semaphore]_vars

\* More probes are wanted than there are slots, by two batches: a call
\* waits while calls of both documents hold the slots.
C20_Witness ==
  /\ semaphore = 0
  /\ \E c \in At("waiting") :
       /\ \E o \in Calls : o[1] # c[1] /\ HoldsSlot(o)
       /\ \E o \in Calls : o[1] = c[1] /\ HoldsSlot(o)

(***************************************************************************)
(* Claims about check_mailbox_exists, checked under SpecProbe              *)
(***************************************************************************)

\* The domain of an address: what follows its last "@" (nothing when it
\* has none).
DomainOf(e) ==
  LET ats == { i \in DOMAIN e : e[i] = "@" }
  IN  IF ats = {} THEN << >>
      ELSE SubSeq(e, (CHOOSE i \in ats : \A j \in ats : j <= i) + 1, Len(e))

Unsupported(e) ==
  \/ "@" \notin Range(e)
  \/ \A i \in DOMAIN COMMON_EMAIL_DOMAINS : DomainOf(e) # COMMON_EMAIL_DOMAINS[i]

\* The status the step `name` was answered with (0 when it raised), as a
\* set: empty when the step was not taken.
Answers(name) == { replies[k] : k \in { j \in DOMAIN steps : steps[j] = name } }

\* C5: for an address whose domain is not a supported one, no DNS
\* resolution and no SMTP connection is started, and the probe returns
\* False.
C5_UnsupportedDomainNoNetwork ==
  Unsupported(probe_email) =>
    /\ steps = << >>
    /\ conn = "none"
    /\ returned # "True"
    /\ probe_pc = "done" => returned = "False"

\* The probe has returned for an address whose domain only ends like a
\* supported one.
C5_Witness ==
  /\ probe_pc = "done"
  /\ returned = "False"
  /\ Unsupported(probe_email)
  /\ endswith(probe_email, COMMON_EMAIL_DOMAINS[1])
  /\ "@" \in Range(probe_email)

ProtocolSteps == <<"MX", "CONNECT", "HELO", "MAIL", "RCPT">>

\* C6: the probe returns a boolean (no exception leaves it); True only when
\* the recipient check was answered 250; and False when the resolution, the
\* connection or one of the three commands raised, when the greeting was
\* refused, and when the recipient check was answered with another status.
C6_FailClosed ==
  probe_pc = "done" =>
    /\ returned \in {"True", "False"}
    /\ returned = "True" => Answers("RCPT") = {250}
    /\ (\E k \in DOMAIN ProtocolSteps : 0 \in Answers(ProtocolSteps[k])) => returned = "False"
    /\ Answers("CONNECT") \ {220} # {} => returned = "False"
    /\ Answers("RCPT") \ {250} # {} => returned = "False"

\* The probe has returned False after the sender declaration raised.
C6_Witness ==
  /\ probe_pc = "done"
  /\ returned = "False"
  /\ Answers("HELO") = {250}
  /\ Answers("MAIL") = {0}

IsPrefix(s, t) == Len(s) <= Len(t) /\ s = SubSeq(t, 1, Len(s))

\* C7: the steps taken are, in this order and each at most once, MX
\* resolution, connect, HELO, MAIL, RCPT (then QUIT, when the with block is
\* left); a step that raised is followed by no other of them; no DATA step
\* is taken; and once the with block is left the connection is not open.
C7_ProtocolOrder ==
  LET taken == SelectSeq(steps, LAMBDA x : x # "QUIT")
  IN  /\ IsPrefix(taken, ProtocolSteps)
      /\ \A k \in DOMAIN steps :
           steps[k] = "QUIT" => k = Len(steps) /\ "CONNECT" \in Range(SubSeq(steps, 1, k - 1))
      /\ \A k \in DOMAIN steps :
           (replies[k] = 0 /\ steps[k] # "QUIT") =>
             \A m \in (k + 1)..Len(steps) : steps[m] = "QUIT"
      /\ "DATA" \notin Range(steps)
      /\ probe_pc \in {"return", "except", "done"} => conn # "open"

\* The probe has returned after all five steps, the connection closed.
C7_Witness ==
  /\ probe_pc = "done"
  /\ steps = ProtocolSteps \o <<"QUIT">>
  /\ conn = "closed"

(***************************************************************************)
(* Claims about save_valid_emails, send_results and handle_document,       *)
(* checked under SpecBot                                                   *)
(***************************************************************************)

\* A sequence that holds exactly the elements of S, each once.
Enumerates(seq, S) ==
  /\ Len(seq) = Cardinality(S)
  /\ Range(seq) = S

\* save_valid_emails of document d is called with new_valid_emails empty.
CalledEmpty(d) ==
  handler[d] = "verified" /\ flush'[d].pc = "returned"

\* save_valid_emails of document d returns after writing, and neither the
\* store nor the two sets were changed by anyone else since it was called.
ReturnsAlone(d) ==
  /\ flush[d].pc = "close" /\ flush'[d].pc = "returned"
  /\ flush[d].at_call = Snapshot(store, new_valid_emails, valid_emails)

\* C13: a call of save_valid_emails with new_valid_emails empty changes
\* neither the store nor the two sets; a call that ran without
\* interference leaves the store as it found it followed by the addresses
\* of new_valid_emails, one per line, each once, leaves new_valid_emails
\* empty and valid_emails as it was.
C13_FlushAlone ==
  [][\A d \in Documents :
       /\ CalledEmpty(d) =>
            /\ store' = store
            /\ new_valid_emails' = new_valid_emails
            /\ valid_emails' = valid_emails
       /\ ReturnsAlone(d) =>
            /\ Len(store') = Len(store) + Cardinality(new_valid_emails)
            /\ SubSeq(store', 1, Len(store)) = flush[d].at_call.store
            /\ Enumerates(SubSeq(store', Len(store) + 1, Len(store')), flush[d].at_call.pending)
            /\ new_valid_emails' = {}
            /\ valid_emails' = flush[d].at_call.known]_vars

\* A call that found two addresses in new_valid_emails and returned,
\* undisturbed, with two lines more in the store.
C13_Witness ==
  \E d \in Documents :
    /\ flush[d].pc = "returned"
    /\ Cardinality(flush[d].at_call.pending) = 2
    /\ flush[d].at_call.known = valid_emails
    /\ Len(store) = Len(flush[d].at_call.store) + 2
    /\ new_valid_emails = {}

\* The verify call c resumes after its probe and returns.
Resumes(c) ==
  /\ c \in At("probed")
  /\ verify'[c[1]][c[2]].pc = "done"

\* C15: new_valid_emails is a subset of valid_emails in every state;
\* valid_emails never loses an element; an address enters valid_emails
\* only in the step in which a verify call for it resumes from a probe that
\* returned True (every other element was loaded at construction); such a
\* step leaves the address in both sets, and the resumption from a probe
\* that returned False changes neither set.
C15_CacheContent ==
  /\ [](new_valid_emails \subseteq valid_emails)
  /\ [][/\ valid_emails \subseteq valid_emails'
        /\ \A e \in valid_emails' \ valid_emails :
             \E c \in Calls : Resumes(c) /\ Call(c).result /\ Call(c).normalized = e
        /\ \A c \in Calls :
             Resumes(c) =>
               IF Call(c).result
               THEN /\ Call(c).normalized \in valid_emails'
                    /\ Call(c).normalized \in new_valid_emails'
               ELSE /\ valid_emails' = valid_emails
                    /\ new_valid_emails' = new_valid_emails]_vars

\* A verify call has resumed from a probe that returned True and one from a
\* probe that returned False, and a save has written the address and
\* cleared new_valid_emails while valid_emails kept it.
C15_Witness ==
  /\ \E c \in At("done") : Call(c).probed /\ Call(c).result
  /\ \E c \in At("done") : Call(c).probed /\ ~Call(c).result
  /\ \E d \in Documents :
       /\ flush[d].pc = "returned"
       /\ flush[d].at_call.pending # {}
       /\ flush[d].at_call.pending \subseteq valid_emails
  /\ new_valid_emails = {}

\* The documents whose save_valid_emails has started and has neither
\* cleared new_valid_emails nor been left by an exception.
Saving == { d \in Documents : flush[d].pc \in {"open", "write", "close"} }

\* C16: two executions of save_valid_emails never overlap, and no line is
\* put into the store twice (the stores loaded hold no line twice).
C16_SingleWriter ==
  /\ Cardinality(Saving) <= 1
  /\ \A i, j \in DOMAIN store : i # j => store[i] # store[j]

\* verify_all of document d has returned its records.
VerifyAllReturned(d) == handler[d] \notin {"idle", "gather", "error", "no_listings"} \/ results[d] # << >>

\* C17: verify_all returns the records of a batch only when every probe of
\* the batch has completed (every verify call of it has returned);
\* save_valid_emails of a batch starts only after verify_all of the batch
\* has returned; it is not called again once it was called; and for a batch
\* that ended without error it was called and has returned.
C17_BatchBarrier ==
  /\ [](\A d \in Documents :
          /\ VerifyAllReturned(d) =>
               /\ \A i \in DOMAIN verify[d] : verify[d][i].pc = "done"
               /\ results[d] = Records(d)
               /\ Len(results[d]) = Len(normalized_listings[d])
          /\ flush[d].pc # "none" => VerifyAllReturned(d) /\ handler[d] # "verified"
          /\ handler[d] = "done" => flush[d].pc = "returned")
  /\ [][\A d \in Documents :
          flush[d].pc # "none" =>
            /\ flush'[d].pc # "none"
            /\ flush'[d].at_call = flush[d].at_call
            /\ flush'[d].pc = "open" => flush[d].pc = "open"]_vars

\* A batch of three listings of which two were probed has ended without
\* error after its save wrote to the store, while another batch was handled.
C17_Witness ==
  \E d \in Documents :
    /\ handler[d] = "done"
    /\ Len(results[d]) = 3
    /\ Cardinality({ i \in DOMAIN verify[d] : verify[d][i].probed }) >= 2
    /\ flush[d].pc = "returned"
    /\ flush[d].at_call.pending # {}
    /\ \E o \in Documents : o # d /\ handler[o] \notin {"idle", "error", "no_listings"}

\* The messages of a kind sent for document d
Sent(d, kind) == { k \in DOMAIN outbox[d] : outbox[d][k].kind = kind }

\* C18: when writing the store failed during save_valid_emails of a batch,
\* the batch is not aborted: its record messages and its summary were
\* delivered, handle_document does not answer with its processing-failure
\* message but goes on to the export, which is delivered once the handler
\* has ended; and valid_emails holds every address whose probe returned
\* True.
C18_SaveFailureIsWarning ==
  \A d \in Documents :
    flush[d].pc = "failed" =>
      /\ SubSeq(outbox[d], 1, Len(ResultMessages(results[d]))) = ResultMessages(results[d])
      /\ handler[d] \in {"export", "done"}
      /\ handler[d] = "done" => Sent(d, "export") # {}
      /\ \A c \in At("done") :
           (Call(c).probed /\ Call(c).result) => Call(c).normalized \in valid_emails

\* What does hold after a failed save: the records and the summary were
\* delivered before it, and valid_emails keeps the addresses.
C18_BeforeTheFailure ==
  \A d \in Documents :
    flush[d].pc = "failed" =>
      /\ outbox[d] = ResultMessages(results[d])
      /\ handler[d] = "error"
      /\ \A c \in At("done") :
           (Call(c).probed /\ Call(c).result) => Call(c).normalized \in valid_emails

\* The address is a line of the store (as load_valid_emails reads it).
Stored(address) == \E k \in DOMAIN store : strip(store[k]) = address

\* C19: an address marked deliverable while a save is suspended is not
\* lost: every address of valid_emails is in the store or still in
\* new_valid_emails, so that whenever new_valid_emails is empty and no save
\* is running every address of valid_emails is in the store; and no save is
\* ended by an error of the iteration over new_valid_emails.
C19_NoAddressLost ==
  /\ \A e \in valid_emails : Stored(e) \/ e \in new_valid_emails
  /\ (new_valid_emails = {} /\ Saving = {}) => \A e \in valid_emails : Stored(e)
  /\ \A d \in Documents : flush[d].pc # "raised"

\* The loss alone: no save raises, and yet an address is in neither place.
C19_LostWithoutError ==
  (\A d \in Documents : flush[d].pc \notin {"raised", "failed"}) =>
    \A e \in valid_emails : Stored(e) \/ e \in new_valid_emails

\* The error alone.
C19_SaveNeverRaises ==
  \A d \in Documents : flush[d].pc # "raised"

====
